---- MODULE Spec2Model ----
(***************************************************************************)
(* Model of the hotellook API client (src/hotellook.go).                   *)
(*                                                                         *)
(* Go strings are sequences of byte codes, so that sort.StringSlice,       *)
(* strconv.Itoa/Atoi, strings.ToUpper and url.QueryEscape are modelled by  *)
(* what they do to the bytes.  crypto/md5 is kept symbolic: the hex digest *)
(* of a source string is a sequence of digest symbols (codes >= 256) that  *)
(* is determined by the source string and differs for different sources.   *)
(***************************************************************************)
EXTENDS Integers, Sequences, FiniteSets, TLC

(***************************************************************************)
(* Bounds of the model.                                                    *)
(***************************************************************************)
\* the number of endpoint calls made on the client
MaxCalls == 1
\* the number of entries of a parameter mapping handed to withSignature
MaxParams == 2
\* the endpoint calls made on a client that callers share
MaxSharedCalls == 2

(***************************************************************************)
(* String literals of the source, as byte sequences.                       *)
(***************************************************************************)
K_query         == <<113, 117, 101, 114, 121>>
K_lang          == <<108, 97, 110, 103>>
K_lookFor       == <<108, 111, 111, 107, 70, 111, 114>>
K_limit         == <<108, 105, 109, 105, 116>>
K_convertCase   == <<99, 111, 110, 118, 101, 114, 116, 67, 97, 115, 101>>
K_location      == <<108, 111, 99, 97, 116, 105, 111, 110>>
K_checkIn       == <<99, 104, 101, 99, 107, 73, 110>>
K_checkOut      == <<99, 104, 101, 99, 107, 79, 117, 116>>
K_locationId    == <<108, 111, 99, 97, 116, 105, 111, 110, 73, 100>>
K_hotleId       == <<104, 111, 116, 108, 101, 73, 100>>
K_hotel         == <<104, 111, 116, 101, 108>>
K_adults        == <<97, 100, 117, 108, 116, 115>>
K_children      == <<99, 104, 105, 108, 100, 114, 101, 110>>
K_currency      == <<99, 117, 114, 114, 101, 110, 99, 121>>
K_infants       == <<105, 110, 102, 97, 110, 116, 115>>
K_clientIp      == <<99, 108, 105, 101, 110, 116, 73, 112>>
K_cityId        == <<99, 105, 116, 121, 73, 100>>
K_hotelId       == <<104, 111, 116, 101, 108, 73, 100>>
K_waitForResult == <<119, 97, 105, 116, 70, 111, 114, 82, 101, 115, 117, 108, 116>>
K_iata          == <<105, 97, 116, 97>>
K_adultsCount   == <<97, 100, 117, 108, 116, 115, 67, 111, 117, 110, 116>>
K_childrenCount == <<99, 104, 105, 108, 100, 114, 101, 110, 67, 111, 117, 110, 116>>
K_childAge1     == <<99, 104, 105, 108, 100, 65, 103, 101, 49>>
K_childAge2     == <<99, 104, 105, 108, 100, 65, 103, 101, 50>>
K_childAge3     == <<99, 104, 105, 108, 100, 65, 103, 101, 51>>
K_customerIp    == <<99, 117, 115, 116, 111, 109, 101, 114, 73, 112>>
K_searchId      == <<115, 101, 97, 114, 99, 104, 73, 100>>
K_offset        == <<111, 102, 102, 115, 101, 116>>
K_sortBy        == <<115, 111, 114, 116, 66, 121>>
K_sortAsc       == <<115, 111, 114, 116, 65, 115, 99>>
K_roomsCount    == <<114, 111, 111, 109, 115, 67, 111, 117, 110, 116>>
K_marker        == <<109, 97, 114, 107, 101, 114>>
K_signature     == <<115, 105, 103, 110, 97, 116, 117, 114, 101>>
\* "0", the value sent for sortAsc
S_zero          == <<48>>
\* "<nil>", what net.IP.String() gives for an IP of length 0
S_nilIP         == <<60, 110, 105, 108, 62>>
\* ":", "=", "&", "-", "+", "%", "."
Colon   == 58
Equals  == 61
Amp     == 38
Minus   == 45
Plus    == 43
Percent == 37
Dot     == 46
Space   == 32

(***************************************************************************)
(* The sentinel errors, and the errors of the libraries.                   *)
(***************************************************************************)
Nil              == "nil"
ErrNoAccess      == "ErrNoAccess"
ErrEmptySearchID == "ErrEmptySearchID"
ErrMissingParams == "ErrMissingParams"
\* the error http.Get returns, the error the JSON decoder returns
ErrTransport     == "ErrTransport"
ErrDecode        == "ErrDecode"

(***************************************************************************)
(* Library functions on strings.                                           *)
(***************************************************************************)
\* s[i] < s[j] of Go strings: byte-wise lexicographic order
RECURSIVE StrLessFrom(_, _, _)
StrLessFrom(a, b, i) ==
  IF i > Len(b) THEN FALSE
  ELSE IF i > Len(a) THEN TRUE
  ELSE IF a[i] # b[i] THEN a[i] < b[i]
  ELSE StrLessFrom(a, b, i + 1)

StrLess(a, b) == StrLessFrom(a, b, 1)

RECURSIVE Digits(_)
Digits(n) == IF n < 10 THEN <<48 + n>> ELSE Append(Digits(n \div 10), 48 + (n % 10))

\* strconv.Itoa
Itoa(n) == IF n < 0 THEN <<Minus>> \o Digits(0 - n) ELSE Digits(n)

IsDigit(b) == b >= 48 /\ b <= 57

RECURSIVE ParseDigits(_, _)
ParseDigits(s, acc) ==
  IF s = <<>> THEN acc ELSE ParseDigits(Tail(s), 10 * acc + (Head(s) - 48))

\* strconv.Atoi with the error dropped: 0 for anything that is not an
\* optionally signed run of decimal digits
Atoi(s) ==
  LET signed == s # <<>> /\ Head(s) \in {Minus, Plus}
      body   == IF signed THEN Tail(s) ELSE s
  IN IF body = <<>> \/ \E i \in 1..Len(body) : ~IsDigit(body[i])
       THEN 0
       ELSE IF signed /\ Head(s) = Minus THEN 0 - ParseDigits(body, 0)
            ELSE ParseDigits(body, 0)

\* strings.ToUpper on ASCII
ToUpper(s) == [i \in 1..Len(s) |-> IF s[i] >= 97 /\ s[i] <= 122 THEN s[i] - 32 ELSE s[i]]

\* net.IP.String(): "<nil>" for an empty IP, dotted decimal for four bytes
IPString(ip) ==
  IF Len(ip) = 0 THEN S_nilIP
  ELSE Itoa(ip[1]) \o <<Dot>> \o Itoa(ip[2]) \o <<Dot>> \o Itoa(ip[3]) \o <<Dot>> \o Itoa(ip[4])

HexUpper(n) == IF n < 10 THEN 48 + n ELSE 55 + n

\* url.QueryEscape of one byte; a digest symbol stands for hex digits, which
\* are not escaped
EscapeByte(b) ==
  IF b >= 256 THEN <<b>>
  ELSE IF IsDigit(b) \/ (b >= 65 /\ b <= 90) \/ (b >= 97 /\ b <= 122) \/ b \in {45, 95, 46, 126}
    THEN <<b>>
  ELSE IF b = Space THEN <<Plus>>
  ELSE <<Percent, HexUpper(b \div 16), HexUpper(b % 16)>>

RECURSIVE QueryEscape(_)
QueryEscape(s) == IF s = <<>> THEN <<>> ELSE EscapeByte(Head(s)) \o QueryEscape(Tail(s))

\* hex.EncodeToString(md5 digest of src), kept symbolic
Md5Hex(src) == [i \in 1..Len(src) |-> 256 + src[i]]

(***************************************************************************)
(* url.Values: a mapping from a key to the list of its values.             *)
(***************************************************************************)
EmptyValues == [k \in {} |-> <<>>]

\* url.Values.Add
Add(v, k, val) ==
  IF k \in DOMAIN v THEN [v EXCEPT ![k] = Append(@, val)] ELSE v @@ (k :> <<val>>)

MinKey(S) == CHOOSE k \in S : \A o \in S \ {k} : StrLess(k, o)

RECURSIVE SortedKeys(_)
SortedKeys(S) ==
  IF S = {} THEN <<>> ELSE LET k == MinKey(S) IN <<k>> \o SortedKeys(S \ {k})

RECURSIVE EncodeKey(_, _)
EncodeKey(k, vals) ==
  IF vals = <<>> THEN <<>>
  ELSE <<Amp>> \o QueryEscape(k) \o <<Equals>> \o QueryEscape(Head(vals)) \o EncodeKey(k, Tail(vals))

RECURSIVE EncodeKeys(_, _)
EncodeKeys(v, keys) ==
  IF keys = <<>> THEN <<>> ELSE EncodeKey(Head(keys), v[Head(keys)]) \o EncodeKeys(v, Tail(keys))

\* url.Values.Encode: "k=v" pairs joined by "&", sorted by key
Encode(v) ==
  LET s == EncodeKeys(v, SortedKeys(DOMAIN v)) IN IF s = <<>> THEN <<>> ELSE Tail(s)

(***************************************************************************)
(* Go maps (map[string]string).  A nil map and an empty map are different  *)
(* values; ranging over a map visits its keys in an unspecified order.     *)
(***************************************************************************)
EmptyMap  == [k \in {} |-> <<>>]
NilParams == [isNil |-> TRUE, m |-> EmptyMap]
MakeMap   == [isNil |-> FALSE, m |-> EmptyMap]

\* v[k] = val
Put(p, k, val) ==
  [isNil |-> FALSE, m |-> IF k \in DOMAIN p.m THEN [p.m EXCEPT ![k] = val] ELSE p.m @@ (k :> val)]

\* every order in which "for k := range params" may visit the keys
RangeOrders(p) ==
  LET n == Cardinality(DOMAIN p.m)
  IN {f \in [1..n -> DOMAIN p.m] : \A i, j \in 1..n : i # j => f[i] # f[j]}

Reverse(s) == [i \in 1..Len(s) |-> s[Len(s) + 1 - i]]

\* two of the orders of RangeOrders(p): ascending and descending keys
SomeRangeOrders(p) == LET up == SortedKeys(DOMAIN p.m) IN {up, Reverse(up)}

RECURSIVE InsertSorted(_, _)
InsertSorted(k, s) ==
  IF s = <<>> THEN <<k>>
  ELSE IF StrLess(k, Head(s)) THEN <<k>> \o s
  ELSE <<Head(s)>> \o InsertSorted(k, Tail(s))

\* keys.Sort() left out: the keys stay in the order range visited them
Sort_Unsorted(keys) == keys

RECURSIVE Sort(_)
\* sort.StringSlice.Sort: ascending
Sort(keys) == IF keys = <<>> THEN <<>> ELSE InsertSorted(Head(keys), Sort(Tail(keys)))

(***************************************************************************)
(* The client: type API, NewAPI, withSignature, checkAccess.               *)
(***************************************************************************)
\* the zero value of the struct API (the mutex is the variable mu)
ZeroAPI == [token |-> <<>>, marker |-> 0, remains |-> 0, limit |-> 0]

\* &API{}: the marker is not stored
NewClient_NoMarker(marker) == ZeroAPI

\* NewAPI for a nonzero marker: &API{marker: marker}
NewClient(marker) == [ZeroAPI EXCEPT !.marker = marker]

RECURSIVE SignLoop_NoAdd(_, _, _)
\* the loop without v.Add(k, params[k])
SignLoop_NoAdd(keys, m, acc) ==
  IF keys = <<>> THEN acc
  ELSE SignLoop_NoAdd(Tail(keys), m,
                      [src |-> acc.src \o <<Colon>> \o m[Head(keys)], v |-> acc.v])

RECURSIVE SignLoop(_, _, _)
\* the loop over the sorted keys: src += ":" + params[k]; v.Add(k, params[k])
SignLoop(keys, m, acc) ==
  IF keys = <<>> THEN acc
  ELSE SignLoop(Tail(keys), m,
                [src |-> acc.src \o <<Colon>> \o m[Head(keys)],
                 v   |-> Add(acc.v, Head(keys), m[Head(keys)])])

\* the hash input and the url.Values of withSignature before marker and
\* signature are added; order is the order in which range visited the keys
SignSource(api, params, order) ==
  LET start == [src |-> api.token \o <<Colon>> \o Itoa(api.marker), v |-> EmptyValues]
  IN IF ~params.isNil THEN SignLoop(Sort(order), params.m, start) ELSE start

\* withSignature without v.Add("signature", ...)
withSignature_NoSignature(api, params, order) ==
  Encode(Add(SignSource(api, params, order).v, K_marker, Itoa(api.marker)))

withSignature(api, params, order) ==
  LET s == SignSource(api, params, order)
  IN Encode(Add(Add(s.v, K_marker, Itoa(api.marker)), K_signature, Md5Hex(s.src)))

\* && written for ||
checkAccess_And(api) ==
  IF api.token = <<>> /\ api.marker = 0 THEN ErrNoAccess ELSE Nil

checkAccess(api) ==
  IF api.token = <<>> \/ api.marker = 0 THEN ErrNoAccess ELSE Nil

(***************************************************************************)
(* The environment: HTTP responses, JSON bodies, the fixture file.         *)
(***************************************************************************)
\* A JSON document as the decoder sees it: data is what the decoder stores
\* into its target before it stops, ok says whether it reached the end
\* without an error.
Bodies ==
  { [data |-> <<>>, ok |-> FALSE], [data |-> <<4>>, ok |-> FALSE],
    [data |-> <<4, 5>>, ok |-> TRUE] }

\* the values of X-Ratelimit-Remaining and X-Ratelimit-Limit: "5" and "10",
\* or no X-Ratelimit-Remaining and "9"
HeaderPairs == { <<<<53>>, <<49, 48>>>>, <<<<>>, <<57>>>> }

\* what http.Get returns: an error, or a response
HttpOutcomes ==
  { [err |-> ErrTransport, rem |-> <<>>, lim |-> <<>>, body |-> [data |-> <<>>, ok |-> FALSE]] }
  \cup { [err |-> Nil, rem |-> h[1], lim |-> h[2], body |-> b] : h \in HeaderPairs, b \in Bodies }

\* what ioutil.ReadFile("./test_data.json") gives with its error dropped:
\* the content of the file, or nothing when the file cannot be read
Fixtures == Bodies

\* ffjson Decode(body, &target): the decoded value and the error
Decode(body, target) ==
  [val |-> IF body.ok \/ body.data # <<>> THEN body.data ELSE target,
   err |-> IF body.ok THEN Nil ELSE ErrDecode]

\* a returned pointer or slice: nil, or a value
NilResp   == [present |-> FALSE, data |-> <<>>]
Value(d)  == [present |-> TRUE, data |-> d]
\* &T{}, new(T), var resp T
ZeroValue == <<>>
\* make([]T, n)
MakeSlice(n) == [i \in 1..n |-> 0]

(***************************************************************************)
(* State.                                                                  *)
(***************************************************************************)
VARIABLES
  ref,       \* what the program holds: "unset", "nil" (NewAPI(0)) or "ptr"
  this,      \* the API struct behind the pointer
  mu,        \* this.mu: 0 when unlocked, else the id of the updater holding it
  updaters,  \* the goroutines started by "go this.updateRemains(r)"
  calls,     \* the number of endpoint calls made
  last,      \* the last call: its inputs, what it returned and what it did
  prevSig,   \* the withSignature call before the last one
  panicked,  \* the program has stopped with a run-time panic
  done       \* the updaters that have ended, in the order of their Unlock

vars == <<ref, this, mu, updaters, calls, last, prevSig, panicked, done>>

\* The record of a call.  op and arg are the method and its argument, err
\* and resp what it returned (returned is FALSE when it panicked instead) and
\* pre the client before the call.  The rest is what the call did: reqs the
\* HTTP requests it issued, transport the error http.Get gave, doc the JSON
\* document it decoded, fileRead whether it read the fixture file, launched
\* the number of updaters it started.
Call(op, arg, err, resp) ==
  [op |-> op, arg |-> arg, err |-> err, resp |-> resp, returned |-> TRUE, pre |-> this,
   reqs |-> <<>>, transport |-> Nil, doc |-> <<>>, fileRead |-> FALSE, launched |-> 0]

NoCall == Call("none", 0, Nil, NilResp)
NoSig  == [token |-> <<>>, marker |-> 0, params |-> NilParams, out |-> <<>>]

Tokens  == { <<>>, <<116, 111, 107>> }
Markers == { 0, 35290, 0 - 1 }

Init ==
  /\ ref = "unset"
  /\ this = ZeroAPI
  /\ mu = 0
  /\ updaters = {}
  /\ calls = 0
  /\ last = [NoCall EXCEPT !.pre = ZeroAPI]
  /\ prevSig = NoSig
  /\ panicked = FALSE
  /\ done = <<>>

\* the client as code inside the package can build it: any struct value
InitUnit ==
  /\ ref = "ptr"
  /\ this \in [token : Tokens, marker : Markers, remains : {0}, limit : {0}]
  /\ mu = 0
  /\ updaters = {}
  /\ calls = 0
  /\ last = [NoCall EXCEPT !.pre = ZeroAPI]
  /\ prevSig = NoSig
  /\ panicked = FALSE
  /\ done = <<>>

(***************************************************************************)
(* Construction, SetToken, checkAccess.                                    *)
(***************************************************************************)
NewAPI(marker) ==
  /\ ref = "unset" /\ ~panicked
  /\ IF marker = 0
       THEN ref' = "nil" /\ this' = this
       ELSE ref' = "ptr" /\ this' = NewClient(marker)
  /\ last' = Call("NewAPI", marker, Nil, NilResp)
  /\ UNCHANGED <<mu, updaters, calls, prevSig, panicked, done>>

SetToken(token) ==
  /\ ref = "ptr" /\ ~panicked
  /\ this' = [this EXCEPT !.token = token]
  /\ last' = Call("SetToken", token, Nil, NilResp)
  /\ UNCHANGED <<ref, mu, updaters, calls, prevSig, panicked, done>>

\* a method that reads or writes a field, called on the nil pointer
NilReceiver ==
  /\ ref = "nil" /\ ~panicked
  /\ panicked' = TRUE
  /\ last' = [Call("SetToken", <<>>, Nil, NilResp) EXCEPT !.returned = FALSE]
  /\ UNCHANGED <<ref, this, mu, updaters, calls, prevSig, done>>

CheckAccess ==
  /\ ref = "ptr" /\ ~panicked
  /\ last' = Call("checkAccess", 0, checkAccess(this), NilResp)
  /\ UNCHANGED <<ref, this, mu, updaters, calls, prevSig, panicked, done>>

\* func (this *API) RequestsRemains() int { return 0 }
RequestsRemains(api) == 0

\* func (this *API) RequestsLimit() int { return 0 }
RequestsLimit(api) == 0

\* the getters called on the client; neither reads a field, so neither
\* panics on the nil pointer
GetRequestsRemains ==
  /\ ref \in {"nil", "ptr"} /\ ~panicked
  /\ last' = Call("RequestsRemains", 0, Nil, Value(RequestsRemains(this)))
  /\ UNCHANGED <<ref, this, mu, updaters, calls, prevSig, panicked, done>>

GetRequestsLimit ==
  /\ ref \in {"nil", "ptr"} /\ ~panicked
  /\ last' = Call("RequestsLimit", 0, Nil, Value(RequestsLimit(this)))
  /\ UNCHANGED <<ref, this, mu, updaters, calls, prevSig, panicked, done>>

\* withSignature called on its own, as the package's test does
ParamKeys   == { K_lang, K_query, K_marker }
ParamValues == { <<101, 110>>, <<97, 32, 98>> }
ParamMaps ==
  { NilParams } \cup
  { [isNil |-> FALSE, m |-> m] :
      m \in UNION { [D -> ParamValues] : D \in { D \in SUBSET ParamKeys : Cardinality(D) <= MaxParams } } }

WithSignature(params, order) ==
  /\ ref = "ptr" /\ ~panicked
  /\ last' = Call("withSignature", params, Nil, Value(withSignature(this, params, order)))
  /\ prevSig' = IF last.op = "withSignature"
                  THEN [token |-> last.pre.token, marker |-> last.pre.marker,
                        params |-> last.arg, out |-> last.resp.data]
                  ELSE prevSig
  /\ UNCHANGED <<ref, this, mu, updaters, calls, panicked, done>>

(***************************************************************************)
(* The background updater: go this.updateRemains(r).                       *)
(***************************************************************************)
\* the goroutines a call starts: one for each response in rs
Started(rs) == { [id |-> calls + 1, pc |-> "lock", rem |-> r.rem, lim |-> r.lim] : r \in rs }

\* Lock that lets an updater in while another holds the mutex
UpdaterLock_NoMutex(u) ==
  /\ u.pc = "lock" /\ ~panicked
  /\ mu' = u.id
  /\ updaters' = (updaters \ {u}) \cup {[u EXCEPT !.pc = "remains"]}
  /\ UNCHANGED <<ref, this, calls, last, prevSig, panicked, done>>

\* this.mu.Lock()
UpdaterLock(u) ==
  /\ u.pc = "lock" /\ mu = 0 /\ ~panicked
  /\ mu' = u.id
  /\ updaters' = (updaters \ {u}) \cup {[u EXCEPT !.pc = "remains"]}
  /\ UNCHANGED <<ref, this, calls, last, prevSig, panicked, done>>

\* this.remains, _ = strconv.Atoi(r.Header.Get("X-Ratelimit-Remaining"))
UpdaterRemains(u) ==
  /\ u.pc = "remains" /\ ~panicked
  /\ this' = [this EXCEPT !.remains = Atoi(u.rem)]
  /\ updaters' = (updaters \ {u}) \cup {[u EXCEPT !.pc = "limit"]}
  /\ UNCHANGED <<ref, mu, calls, last, prevSig, panicked, done>>

\* this.limit, _ = strconv.Atoi(r.Header.Get("X-Ratelimit-Limit"))
UpdaterLimit(u) ==
  /\ u.pc = "limit" /\ ~panicked
  /\ this' = [this EXCEPT !.limit = Atoi(u.lim)]
  /\ updaters' = (updaters \ {u}) \cup {[u EXCEPT !.pc = "unlock"]}
  /\ UNCHANGED <<ref, mu, calls, last, prevSig, panicked, done>>

\* this.mu.Unlock(), and the goroutine ends
UpdaterUnlock(u) ==
  /\ u.pc = "unlock" /\ ~panicked
  /\ mu' = 0
  /\ updaters' = updaters \ {u}
  /\ done' = Append(done, u)
  /\ UNCHANGED <<ref, this, calls, last, prevSig, panicked>>

(***************************************************************************)
(* The endpoint methods.  out is what http.Get returns; a call is recorded *)
(* in last, with the requests it issued and the updaters it started.       *)
(***************************************************************************)
Request(endpoint, query) == [endpoint |-> endpoint, query |-> query]

\* http.Get(rq) was called and gave out
Sent(c, rq, out) == [c EXCEPT !.reqs = <<rq>>, !.transport = out.err]
\* the body of out was read and handed to the decoder
Replied(c, rq, out) == [Sent(c, rq, out) EXCEPT !.doc = <<out.body>>]
\* ioutil.ReadFile("./test_data.json") was called and its result decoded
FromFile(c, file) == [c EXCEPT !.fileRead = TRUE, !.doc = <<file>>]

\* a method that runs updateRemains itself and returns when it has ended
Return_Joined(c, rs) ==
  /\ ref = "ptr" /\ ~panicked /\ mu = 0
  /\ last' = [c EXCEPT !.launched = Cardinality(rs)]
  /\ calls' = calls + 1
  /\ IF rs = {}
       THEN this' = this /\ done' = done
       ELSE \E u \in Started(rs) :
              /\ this' = [this EXCEPT !.remains = Atoi(u.rem), !.limit = Atoi(u.lim)]
              /\ done' = Append(done, u)
  /\ UNCHANGED <<ref, mu, updaters, prevSig, panicked>>

\* the method returns c, having started updaters for the responses in rs
Return(c, rs) ==
  /\ ref = "ptr" /\ ~panicked
  /\ last' = [c EXCEPT !.launched = Cardinality(rs)]
  /\ calls' = calls + 1
  /\ updaters' = updaters \cup Started(rs)
  /\ UNCHANGED <<ref, this, mu, prevSig, panicked, done>>

\* the method panics after having started updaters for the responses in rs
Panic(c, rs) ==
  /\ ref = "ptr" /\ ~panicked
  /\ last' = [c EXCEPT !.launched = Cardinality(rs), !.returned = FALSE]
  /\ calls' = calls + 1
  /\ updaters' = updaters \cup Started(rs)
  /\ panicked' = TRUE
  /\ UNCHANGED <<ref, this, mu, prevSig, done>>

AddIf(cond, v, k, val) == IF cond THEN Add(v, k, val) ELSE v
PutIf(cond, p, k, val) == IF cond THEN Put(p, k, val) ELSE p

LookupQuery(req) ==
  LET v1 == Add(EmptyValues, K_query, req.Query)
      v2 == Add(v1, K_lang, req.Lang)
      v3 == Add(v2, K_lookFor, req.LookFor)
      v4 == AddIf(req.Limit # 0, v3, K_limit, Itoa(req.Limit))
      v5 == AddIf(req.ConvertCase # 0, v4, K_convertCase, Itoa(req.ConvertCase))
  IN Encode(v5)

Lookup(req) ==
  LET rq == Request("lookup.json?", LookupQuery(req))
  IN \E out \in HttpOutcomes :
       LET d == Decode(out.body, ZeroValue)
       IN IF out.err # Nil
            THEN Return(Sent(Call("Lookup", req, out.err, Value(ZeroValue)), rq, out), {})
          ELSE IF d.err # Nil
            THEN Return(Replied(Call("Lookup", req, d.err, Value(ZeroValue)), rq, out), {out})
          ELSE Return(Replied(Call("Lookup", req, Nil, Value(d.val)), rq, out), {out})

PriceQuery(req) ==
  LET v1  == Add(EmptyValues, K_location, req.Location)
      v2  == Add(v1, K_checkIn, req.CheckIn)
      v3  == Add(v2, K_checkOut, req.CheckOut)
      v4  == AddIf(req.LocationID # 0, v3, K_locationId, Itoa(req.LocationID))
      v5  == AddIf(req.HotelID # 0, v4, K_hotleId, Itoa(req.HotelID))
      v6  == AddIf(req.Hotel # <<>>, v5, K_hotel, req.Hotel)
      v7  == AddIf(req.Adults # 0, v6, K_adults, Itoa(req.Adults))
      v8  == AddIf(req.Children # 0, v7, K_children, Itoa(req.Children))
      v9  == AddIf(req.Currency # <<>>, v8, K_currency, req.Currency)
      v10 == AddIf(req.Infants # 0, v9, K_infants, Itoa(req.Infants))
      v11 == AddIf(req.Limit # 0, v10, K_limit, Itoa(req.Limit))
      v12 == Add(v11, K_clientIp, IPString(req.CustomerIP))
  IN Encode(v12)

\* make([]PriceResponse, req.Limit) panics when req.Limit is negative
Price(req) ==
  LET rq    == Request("cache.json?", PriceQuery(req))
      limit == IF req.Limit # 0 THEN req.Limit ELSE 1
  IN \E out \in HttpOutcomes :
       IF out.err # Nil
         THEN Return(Sent(Call("Price", req, out.err, NilResp), rq, out), {})
       ELSE IF limit < 0
         THEN Panic(Sent(Call("Price", req, Nil, NilResp), rq, out), {out})
       ELSE LET d == Decode(out.body, MakeSlice(limit))
            IN IF d.err # Nil
                 THEN Return(Replied(Call("Price", req, d.err, NilResp), rq, out), {out})
                 ELSE Return(Replied(Call("Price", req, Nil, Value(d.val)), rq, out), {out})

Countries ==
  IF checkAccess(this) # Nil
    THEN Return(Call("Countries", 0, checkAccess(this), NilResp), {})
  ELSE
    LET rq == Request("static/countries.json?", withSignature(this, NilParams, <<>>))
    IN \E out \in HttpOutcomes :
         LET d == Decode(out.body, MakeSlice(1))
         IN IF out.err # Nil
              THEN Return(Sent(Call("Countries", 0, out.err, NilResp), rq, out), {})
            ELSE IF d.err # Nil
              THEN Return(Replied(Call("Countries", 0, ErrNoAccess, NilResp), rq, out), {out})
            ELSE Return(Replied(Call("Countries", 0, Nil, Value(d.val)), rq, out), {out})

Cities ==
  IF checkAccess(this) # Nil
    THEN Return(Call("Cities", 0, checkAccess(this), NilResp), {})
  ELSE
    LET rq == Request("static/locations.json?", withSignature(this, NilParams, <<>>))
    IN \E out \in HttpOutcomes :
         LET d == Decode(out.body, MakeSlice(2))
         IN IF out.err # Nil
              THEN Return(Sent(Call("Cities", 0, out.err, NilResp), rq, out), {})
            ELSE IF d.err # Nil
              THEN Return(Replied(Call("Cities", 0, ErrNoAccess, NilResp), rq, out), {out})
            ELSE Return(Replied(Call("Cities", 0, Nil, Value(d.val)), rq, out), {out})

Amenities ==
  IF checkAccess(this) # Nil
    THEN Return(Call("Amenities", 0, checkAccess(this), NilResp), {})
  ELSE
    LET rq == Request("static/amenities.json?", withSignature(this, NilParams, <<>>))
    IN \E out \in HttpOutcomes :
         LET d == Decode(out.body, MakeSlice(1))
         IN IF out.err # Nil
              THEN Return(Sent(Call("Amenities", 0, out.err, NilResp), rq, out), {})
            ELSE IF d.err # Nil
              THEN Return(Replied(Call("Amenities", 0, ErrNoAccess, NilResp), rq, out), {out})
            ELSE Return(Replied(Call("Amenities", 0, Nil, Value(d.val)), rq, out), {out})

FetchHotelList(locationId) ==
  IF checkAccess(this) # Nil
    THEN Return(Call("FetchHotelList", locationId, checkAccess(this), NilResp), {})
  ELSE
    LET v  == Put(MakeMap, K_locationId, locationId)
        rq == Request("static/hotels.json?", withSignature(this, v, <<K_locationId>>))
    IN \E out \in HttpOutcomes :
         LET d == Decode(out.body, ZeroValue)
         IN IF out.err # Nil
              THEN Return(Sent(Call("FetchHotelList", locationId, out.err, Value(ZeroValue)),
                               rq, out), {})
            ELSE IF d.err # Nil
              THEN Return(Replied(Call("FetchHotelList", locationId, ErrNoAccess, Value(ZeroValue)),
                                  rq, out), {out})
            ELSE Return(Replied(Call("FetchHotelList", locationId, Nil, Value(d.val)),
                                rq, out), {out})

\* RoomTypes returning the decoder's error
RoomTypes_DecodeErr ==
  LET rq == Request("static/roomTypes.json?", withSignature(this, NilParams, <<>>))
  IN \E out \in HttpOutcomes :
       LET d == Decode(out.body, ZeroValue)
       IN IF out.err # Nil
            THEN Return(Sent(Call("RoomTypes", 0, out.err, NilResp), rq, out), {})
          ELSE IF d.err # Nil
            THEN Return(Replied(Call("RoomTypes", 0, d.err, NilResp), rq, out), {out})
          ELSE Return(Replied(Call("RoomTypes", 0, Nil, Value(d.val)), rq, out), {out})

RoomTypes ==
  LET rq == Request("static/roomTypes.json?", withSignature(this, NilParams, <<>>))
  IN \E out \in HttpOutcomes :
       LET d == Decode(out.body, ZeroValue)
       IN IF out.err # Nil
            THEN Return(Sent(Call("RoomTypes", 0, out.err, NilResp), rq, out), {})
          ELSE IF d.err # Nil
            THEN Return(Replied(Call("RoomTypes", 0, ErrNoAccess, NilResp), rq, out), {out})
          ELSE Return(Replied(Call("RoomTypes", 0, Nil, Value(d.val)), rq, out), {out})

SearchParams(req) ==
  LET v1  == Put(MakeMap, K_cityId, Itoa(req.CityID))
      v2  == PutIf(req.HotelID # 0, v1, K_hotelId, Itoa(req.HotelID))
      v3  == PutIf(req.WaitForResult # 0, v2, K_waitForResult, Itoa(req.WaitForResult))
      v4  == PutIf(req.IATA # <<>>, v3, K_iata, req.IATA)
      v5  == Put(v4, K_checkIn, req.CheckIn)
      v6  == Put(v5, K_checkOut, req.CheckOut)
      v7  == Put(v6, K_adultsCount, Itoa(req.AdultsCount))
      v8  == Put(v7, K_childrenCount, Itoa(req.ChildrenCount))
      v9  == PutIf(req.ChildrenCount # 0, v8, K_childAge1, Itoa(req.ChildAges[1]))
      v10 == PutIf(req.ChildrenCount # 0 /\ req.ChildrenCount > 1, v9, K_childAge2, Itoa(req.ChildAges[2]))
      v11 == PutIf(req.ChildrenCount # 0 /\ req.ChildrenCount = 3, v10, K_childAge3, Itoa(req.ChildAges[3]))
      v12 == Put(v11, K_lang, req.Lang)
      v13 == Put(v12, K_currency, ToUpper(req.Currency))
      v14 == Put(v13, K_customerIp, req.CustomerIp)
  IN v14

\* the SearchID field of the decoded struct
SearchIDOf(val) == IF val = <<>> THEN 0 ELSE val[1]

Search(req) ==
  LET v == SearchParams(req)
  IN \E order \in SomeRangeOrders(v) :
       LET rq == Request("search/start.json?", withSignature(this, v, order))
       IN \E out \in HttpOutcomes :
            LET d == Decode(out.body, ZeroValue)
            IN IF out.err # Nil
                 THEN Return(Sent(Call("Search", req, out.err, Value(<<0>>)), rq, out), {})
               ELSE IF d.err # Nil
                 THEN Return(Replied(Call("Search", req, d.err, Value(<<0>>)), rq, out), {out})
               ELSE Return(Replied(Call("Search", req, Nil, Value(<<SearchIDOf(d.val)>>)),
                                   rq, out), {out})

SearchResultsParams(req) ==
  LET v1 == Put(MakeMap, K_searchId, Itoa(req.SearchID))
      v2 == PutIf(req.Limit # 0, v1, K_limit, Itoa(req.Limit))
      v3 == PutIf(req.Offset # 0, v2, K_offset, Itoa(req.Offset))
      v4 == PutIf(req.SortBy # <<>>, v3, K_sortBy, req.SortBy)
      v5 == PutIf(req.SortAsc = 0 - 1, v4, K_sortAsc, S_zero)
      v6 == PutIf(req.RoomsCount # 0, v5, K_roomsCount, Itoa(req.RoomsCount))
  IN v6

\* the check of the search identifier left out
EmptySearchID_Never(req) == FALSE
\* if req.SearchID == 0
EmptySearchID(req) == req.SearchID = 0
\* the fixture branch left out
FixtureSearchID_Never(req) == FALSE
\* if req.SearchID == -1
FixtureSearchID(req) == req.SearchID = 0 - 1

FetchSearchResults(req) ==
  IF EmptySearchID(req)
    THEN Return(Call("FetchSearchResults", req, ErrEmptySearchID, NilResp), {})
  ELSE IF FixtureSearchID(req)
    THEN \E file \in Fixtures :
           LET f == Decode(file, ZeroValue)
           IN IF f.err # Nil
                THEN Return(FromFile(Call("FetchSearchResults", req, f.err, Value(f.val)), file), {})
                ELSE Return(FromFile(Call("FetchSearchResults", req, Nil, Value(f.val)), file), {})
  ELSE
    LET v == SearchResultsParams(req)
    IN \E order \in SomeRangeOrders(v) :
         LET rq == Request("search/getResult.json?", withSignature(this, v, order))
         IN \E out \in HttpOutcomes :
              LET d == Decode(out.body, ZeroValue)
              IN IF out.err # Nil
                   THEN Return(Sent(Call("FetchSearchResults", req, out.err, Value(ZeroValue)),
                                    rq, out), {})
                 ELSE IF d.err # Nil
                   THEN Return(Replied(Call("FetchSearchResults", req, d.err, Value(ZeroValue)),
                                       rq, out), {out})
                 ELSE Return(Replied(Call("FetchSearchResults", req, Nil, Value(d.val)),
                                     rq, out), {out})

(***************************************************************************)
(* The requests the callers make.                                          *)
(***************************************************************************)
S_moscow == <<109, 111, 115, 99, 111, 119>>
S_en     == <<101, 110>>
S_both   == <<98, 111, 116, 104>>
S_MOW    == <<77, 79, 87>>
S_date1  == <<50, 48, 49, 54, 45, 49, 50, 45, 49, 48>>
S_date2  == <<50, 48, 49, 54, 45, 49, 50, 45, 49, 55>>
S_rub    == <<114, 117, 98>>
S_895    == <<56, 57, 53>>
S_price  == <<112, 114, 105, 99, 101>>
S_LED    == <<76, 69, 68>>

LookupRequests ==
  { [Query |-> S_moscow, Lang |-> S_en, LookFor |-> S_both, Limit |-> l, ConvertCase |-> c] :
      <<l, c>> \in { <<0, 0>>, <<2, 1>> } }

PriceRequests ==
  { [Location |-> S_MOW, CheckIn |-> S_date1, CheckOut |-> S_date2, Currency |-> c,
     LocationID |-> 0, HotelID |-> h, Hotel |-> <<>>, Adults |-> 0, Children |-> 0,
     Infants |-> 0, Limit |-> l, CustomerIP |-> ip] :
      <<c, h, l, ip>> \in { <<S_rub, 0, 10, <<>> >>, <<<<>>, 12, 0, <<10, 0, 0, 1>> >>,
                            <<S_rub, 0, 0 - 1, <<>> >> } }

SearchRequests ==
  { [CityID |-> 12153, HotelID |-> h, IATA |-> i, CheckIn |-> S_date1, CheckOut |-> S_date2,
     AdultsCount |-> 1, ChildrenCount |-> n, ChildAges |-> <<5, 7, 9>>, CustomerIp |-> <<>>,
     Currency |-> S_rub, Lang |-> S_en, WaitForResult |-> w] :
      <<h, i, n, w>> \in { <<0, <<>>, 0, 0>>, <<0, S_LED, 2, 1>>, <<33, <<>>, 3, 0>> } }

SearchResultsRequests ==
  { [SearchID |-> id, Limit |-> f[1], Offset |-> f[2], SortBy |-> f[3], SortAsc |-> f[4],
     RoomsCount |-> f[5]] :
      id \in { 0, 0 - 1, 7 },
      f \in { <<0, 0, <<>>, 1, 0>>, <<5, 10, S_price, 0 - 1, 2>> } }

LocationIds == { S_895 }

Endpoint ==
  \/ \E req \in LookupRequests : Lookup(req)
  \/ \E req \in PriceRequests : Price(req)
  \/ Countries
  \/ Cities
  \/ Amenities
  \/ \E id \in LocationIds : FetchHotelList(id)
  \/ RoomTypes
  \/ \E req \in SearchRequests : Search(req)
  \/ \E req \in SearchResultsRequests : FetchSearchResults(req)

Updater ==
  \E u \in updaters :
    UpdaterLock(u) \/ UpdaterRemains(u) \/ UpdaterLimit(u) \/ UpdaterUnlock(u)

Next ==
  \/ \E m \in Markers : NewAPI(m)
  \/ \E t \in Tokens : SetToken(t)
  \/ NilReceiver
  \/ CheckAccess
  \/ GetRequestsRemains
  \/ GetRequestsLimit
  \/ (calls < MaxCalls /\ Endpoint)
  \/ Updater

Spec == Init /\ [][Next]_vars

NextUnit ==
  \/ CheckAccess
  \/ \E p \in ParamMaps : \E o \in RangeOrders(p) : WithSignature(p, o)

SpecUnit == InitUnit /\ [][NextUnit]_vars

\* One client shared by callers: it was built by NewAPI and given its token
\* before the callers started.  Calls, getters and the updaters the calls
\* started interleave freely.
InitShared ==
  /\ ref = "ptr"
  /\ this \in { [NewClient(m) EXCEPT !.token = t] : m \in Markers \ {0}, t \in Tokens \ {<<>>} }
  /\ mu = 0
  /\ updaters = {}
  /\ calls = 0
  /\ last = [NoCall EXCEPT !.pre = ZeroAPI]
  /\ prevSig = NoSig
  /\ panicked = FALSE
  /\ done = <<>>

SharedLookups == { r \in LookupRequests : r.Limit = 0 }

NextShared ==
  \/ (calls < MaxSharedCalls /\ \E req \in SharedLookups : Lookup(req))
  \/ (calls < MaxSharedCalls /\ Countries)
  \/ GetRequestsRemains
  \/ GetRequestsLimit
  \/ Updater

SpecShared == InitShared /\ [][NextShared]_vars

(***************************************************************************)
(* Reading a query string back: what the receiver of a request sees.       *)
(***************************************************************************)
HexVal(c) == IF c <= 57 THEN c - 48 ELSE c - 55

RECURSIVE Unescape(_)
\* url.QueryUnescape
Unescape(s) ==
  IF s = <<>> THEN <<>>
  ELSE IF Head(s) = Plus THEN <<Space>> \o Unescape(Tail(s))
  ELSE IF Head(s) = Percent
    THEN <<16 * HexVal(s[2]) + HexVal(s[3])>> \o Unescape(SubSeq(s, 4, Len(s)))
  ELSE <<Head(s)>> \o Unescape(Tail(s))

RECURSIVE Split(_, _)
\* the pieces of s between the separators
Split(s, sep) ==
  IF \A i \in 1..Len(s) : s[i] # sep THEN <<s>>
  ELSE LET i == CHOOSE i \in 1..Len(s) : s[i] = sep /\ \A j \in 1..(i - 1) : s[j] # sep
       IN <<SubSeq(s, 1, i - 1)>> \o Split(SubSeq(s, i + 1, Len(s)), sep)

\* the (key, value) entries of a query string, in the order they appear
ParseQuery(q) ==
  IF q = <<>> THEN <<>>
  ELSE LET parts == Split(q, Amp)
       IN [i \in 1..Len(parts) |->
             LET kv == Split(parts[i], Equals) IN <<Unescape(kv[1]), Unescape(kv[2])>>]

HasParam(q, k) == \E i \in 1..Len(ParseQuery(q)) : ParseQuery(q)[i][1] = k
HasEntry(q, k, val) == \E i \in 1..Len(ParseQuery(q)) : ParseQuery(q)[i] = <<k, val>>

Signed(rq)   == HasParam(rq.query, K_marker) /\ HasParam(rq.query, K_signature)
Unsigned(rq) == ~HasParam(rq.query, K_marker) /\ ~HasParam(rq.query, K_signature)

ClosedOps   == {"Countries", "Cities", "Amenities", "FetchHotelList", "RoomTypes"}
PublicOps   == {"Lookup", "Price", "Search", "FetchSearchResults"}
EndpointOps == ClosedOps \cup PublicOps

\* the response was read from the network and could not be decoded
MalformedBody == last.reqs # <<>> /\ last.doc # <<>> /\ ~last.doc[1].ok

\* the zero value of what the method returns, and what a decoded document
\* makes it return
ZeroOf(op) == IF op = "Search" THEN <<0>> ELSE <<>>
DecodedOf(op, data) == IF op = "Search" THEN <<SearchIDOf(data)>> ELSE data

RECURSIVE ColonValues(_, _)
ColonValues(keys, m) ==
  IF keys = <<>> THEN <<>> ELSE <<Colon>> \o m[Head(keys)] \o ColonValues(Tail(keys), m)

\* token ":" marker, then ":" value for each key in ascending order
ExpectedSrc(api, params) ==
  api.token \o <<Colon>> \o Itoa(api.marker) \o ColonValues(SortedKeys(DOMAIN params.m), params.m)

(***************************************************************************)
(* The claims.                                                             *)
(***************************************************************************)

\* C1: every closed endpoint method (Countries, Cities, Amenities,
\* FetchHotelList, RoomTypes) called with an empty token returns ErrNoAccess
\* without issuing an HTTP request, and no public method returns ErrNoAccess.
\* RoomTypes does not call checkAccess, so this fails.
C1_GateOnEveryClosedEndpoint ==
  /\ (last.op \in ClosedOps /\ last.pre.token = <<>>)
       => (last.returned /\ last.err = ErrNoAccess /\ last.reqs = <<>>)
  /\ (last.op \in PublicOps) => last.err # ErrNoAccess

\* C2: checkAccess returns ErrNoAccess exactly when the token is empty or the
\* marker is zero, nil otherwise, and leaves the client as it was.
C2_CheckAccess ==
  last.op = "checkAccess" =>
    /\ last.err \in {ErrNoAccess, Nil}
    /\ last.err = ErrNoAccess <=> (last.pre.token = <<>> \/ last.pre.marker = 0)
    /\ this = last.pre

\* checkAccess has refused a client that has a token but a zero marker
C2_Witness ==
  last.op = "checkAccess" /\ last.pre.token # <<>> /\ last.pre.marker = 0 /\ last.err = ErrNoAccess

\* C3: FetchSearchResults with SearchID 0 returns ErrEmptySearchID and has
\* issued no HTTP request, read no fixture file and started no updater.
C3_EmptySearchID ==
  (last.op = "FetchSearchResults" /\ last.arg.SearchID = 0) =>
    /\ last.returned /\ last.err = ErrEmptySearchID
    /\ last.reqs = <<>> /\ ~last.fileRead /\ last.doc = <<>> /\ last.launched = 0

\* SearchID 0 was refused on a client with credentials, other fields set
C3_Witness ==
  /\ last.op = "FetchSearchResults" /\ last.arg.SearchID = 0 /\ last.arg.Limit # 0
  /\ last.pre.token # <<>> /\ last.err = ErrEmptySearchID

\* C4: FetchSearchResults with SearchID -1 decodes the fixture file and has
\* issued no HTTP request and started no updater.
C4_FixtureOnly ==
  (last.op = "FetchSearchResults" /\ last.arg.SearchID = 0 - 1) =>
    /\ last.returned /\ last.fileRead /\ last.doc # <<>>
    /\ last.reqs = <<>> /\ last.launched = 0

\* SearchID -1 was answered from the fixture on a client without a token,
\* with the other fields set
C4_Witness ==
  /\ last.op = "FetchSearchResults" /\ last.arg.SearchID = 0 - 1 /\ last.arg.Limit # 0
  /\ last.pre.token = <<>> /\ last.fileRead /\ last.err = Nil

\* C5: an endpoint method that returns an error returns no response or a
\* zero-valued one, and one that returns no error returns the decoded
\* document.  The fixture branch of FetchSearchResults returns what it had
\* decoded together with the error, so this fails.
C5_NoPartialSuccess ==
  (last.op \in EndpointOps /\ last.returned) =>
    /\ last.err # Nil => (~last.resp.present \/ last.resp.data = ZeroOf(last.op))
    /\ last.err = Nil =>
         /\ last.resp.present /\ last.doc # <<>> /\ last.doc[1].ok
         /\ last.resp.data = DecodedOf(last.op, last.doc[1].data)

\* C6: on a malformed HTTP body a closed endpoint returns ErrNoAccess and a
\* public endpoint the decoder's error; a transport error is returned as it
\* is by both.
C6_ErrorMapping ==
  (last.op \in EndpointOps /\ last.returned) =>
    /\ (MalformedBody /\ last.op \in ClosedOps) => last.err = ErrNoAccess
    /\ (MalformedBody /\ last.op \in PublicOps) => last.err = ErrDecode
    /\ last.transport # Nil => (last.err = last.transport /\ last.err # ErrNoAccess)

\* RoomTypes has turned a malformed body into ErrNoAccess
C6_Witness ==
  last.op = "RoomTypes" /\ MalformedBody /\ last.returned /\ last.err = ErrNoAccess

\* C7 as claimed: requests of the public endpoints carry neither marker nor
\* signature, requests of the closed endpoints carry both.
C7_SignatureOnClosedOnly ==
  \A i \in 1..Len(last.reqs) :
    /\ last.op \in PublicOps => Unsigned(last.reqs[i])
    /\ last.op \in ClosedOps => Signed(last.reqs[i])

\* C7 as amended: requests of Lookup and Price carry neither marker nor
\* signature; requests of the closed endpoints, of Search and of
\* FetchSearchResults carry both, the marker being the client's.
C7_SignatureWhereComputed ==
  \A i \in 1..Len(last.reqs) :
    /\ last.op \in {"Lookup", "Price"} => Unsigned(last.reqs[i])
    /\ last.op \in ClosedOps \cup {"Search", "FetchSearchResults"} =>
         /\ Signed(last.reqs[i])
         /\ HasEntry(last.reqs[i].query, K_marker, Itoa(last.pre.marker))

\* Search has issued a signed request
C7_Witness ==
  last.op = "Search" /\ last.reqs # <<>> /\ Signed(last.reqs[1])

\* C8: the signature is the hash of token ":" marker and ":" value for each
\* key in ascending order, whatever order the keys were visited in, and two
\* calls with the same token, marker and entries give the same string.
C8_SignatureDeterministic ==
  last.op = "withSignature" =>
    /\ HasEntry(last.resp.data, K_signature, Md5Hex(ExpectedSrc(last.pre, last.arg)))
    /\ ( /\ prevSig.out # <<>>
         /\ prevSig.token = last.pre.token /\ prevSig.marker = last.pre.marker
         /\ prevSig.params.m = last.arg.m )
         => prevSig.out = last.resp.data

\* two calls with the same two entries have given the same string
C8_Witness ==
  /\ last.op = "withSignature" /\ Cardinality(DOMAIN last.arg.m) = 2
  /\ prevSig.out # <<>> /\ prevSig.params.m = last.arg.m
  /\ prevSig.out = last.resp.data

\* C9: the string withSignature returns holds every entry of the mapping,
\* one marker entry with the client's marker, one signature entry with the
\* hash, and nothing else; for a nil or an empty mapping it is
\* marker=<marker>&signature=<hash of token:marker>.
C9_QueryContents ==
  last.op = "withSignature" =>
    LET q == last.resp.data
        m == last.arg.m
    IN /\ Len(ParseQuery(q)) = Cardinality(DOMAIN m) + 2
       /\ \A k \in DOMAIN m : HasEntry(q, k, m[k])
       /\ HasEntry(q, K_marker, Itoa(last.pre.marker))
       /\ HasEntry(q, K_signature, Md5Hex(ExpectedSrc(last.pre, last.arg)))
       /\ DOMAIN m = {} =>
            q = K_marker \o <<Equals>> \o Itoa(last.pre.marker) \o <<Amp>> \o K_signature
                  \o <<Equals>> \o Md5Hex(last.pre.token \o <<Colon>> \o Itoa(last.pre.marker))

\* a mapping that itself has a marker entry, and a value that needs
\* escaping, was signed
C9_Witness ==
  /\ last.op = "withSignature" /\ K_marker \in DOMAIN last.arg.m
  /\ \E k \in DOMAIN last.arg.m : Space \in {last.arg.m[k][i] : i \in 1..Len(last.arg.m[k])}
  /\ Len(ParseQuery(last.resp.data)) = 4

\* the state part of C10
C10_State ==
  /\ (last.op = "NewAPI" /\ last.arg = 0) => ref = "nil"
  /\ (last.op = "NewAPI" /\ last.arg # 0) =>
       (ref = "ptr" /\ this = [token |-> <<>>, marker |-> last.arg, remains |-> 0, limit |-> 0])
  /\ (last.op = "checkAccess" /\ this.token = <<>>) => last.err = ErrNoAccess
  /\ (last.op = "checkAccess" /\ this.token # <<>>) => last.err = Nil

\* the step part of C10: only SetToken with a non-empty token ends the time
\* in which the token is empty
C10_Step ==
  (ref' = "ptr" /\ this'.token # <<>> /\ this.token = <<>>)
    => (last'.op = "SetToken" /\ last'.arg # <<>> /\ this'.token = last'.arg)

\* C10: NewAPI(0) gives nil; NewAPI(m) for m # 0 gives a client with marker
\* m, an empty token and zero counters, on which checkAccess returns
\* ErrNoAccess until SetToken has stored a non-empty token.
C10_NewAPI == [](C10_State) /\ [][C10_Step]_vars

\* checkAccess has refused a client made by NewAPI with a nonzero marker
C10_Witness ==
  /\ ref = "ptr" /\ this.marker # 0 /\ this.token = <<>>
  /\ last.op = "checkAccess" /\ last.err = ErrNoAccess

(***************************************************************************)
(* The rate-limit counters on a shared client.                             *)
(***************************************************************************)
\* the counter pair an updater writes: its two headers through strconv.Atoi
PairOf(u) == <<Atoi(u.rem), Atoi(u.lim)>>
\* the counter pair of the client
Counters == <<this.remains, this.limit>>
\* the updaters that are past Lock and have not yet unlocked
Inside == { u \in updaters : u.pc \in {"remains", "limit", "unlock"} }

\* the state part of C11: a call starts one updater exactly when http.Get
\* gave it a response, and once every updater has ended the counters are
\* those of the updater that unlocked last, whichever call started it
C11_State ==
  /\ (last.op \in EndpointOps /\ last.returned) =>
       last.launched = (IF last.reqs # <<>> /\ last.transport = Nil THEN 1 ELSE 0)
  /\ (updaters = {} /\ done # <<>>) => Counters = PairOf(done[Len(done)])

\* the step part of C11: when a call that got a response returns, its
\* updater has been started and has not run: it waits at Lock, no updater
\* has ended during the call and the counters are as they were
C11_Step ==
  (calls' = calls + 1 /\ last'.launched = 1) =>
    /\ \E u \in updaters' \ updaters : u.id = calls' /\ u.pc = "lock"
    /\ Cardinality(updaters' \ updaters) = 1
    /\ done' = done /\ Counters' = Counters /\ mu' = mu

\* C11: rate-limit updates are last-writer-wins with no sequencing.  Each
\* successful HTTP response launches one background updater and the calling
\* method returns without waiting for it; the counters end up as the values
\* of the updater that ran last, which may belong to an earlier call than
\* the latest one.
C11_LastWriterWins == [](C11_State) /\ [][C11_Step]_vars

\* two calls were made one after the other, the updater of the second ended
\* before that of the first, and with all updaters ended the counters hold
\* the headers of the first call, which differ from those of the second
C11_Witness ==
  /\ updaters = {} /\ Len(done) = 2
  /\ done[1].id = 2 /\ done[2].id = 1
  /\ PairOf(done[1]) # PairOf(done[2])
  /\ Counters = PairOf(done[2])

\* a getter was called in this step: it is the last call and the step
\* changed nothing of the client or its updaters
GetterStep(op) == last'.op = op /\ UNCHANGED <<this, mu, updaters, calls, done>>

\* C12: RequestsRemains returns the X-Ratelimit-Remaining value and
\* RequestsLimit the X-Ratelimit-Limit value last recorded by the client:
\* called when an updater for a response with headers (r, l) has ended and
\* no updater has entered the mutex since, they return r and l.
C12_GettersReportCounters ==
  [][ (done # <<>> /\ mu = 0) =>
        /\ GetterStep("RequestsRemains") => last'.resp.data = PairOf(done[Len(done)])[1]
        /\ GetterStep("RequestsLimit") => last'.resp.data = PairOf(done[Len(done)])[2] ]_vars

\* the counter pairs of the responses whose updaters have ended
Recorded == { PairOf(done[i]) : i \in 1..Len(done) }

\* C13: under any interleaving of calls on one shared client at most one
\* updater is inside the section between Lock and Unlock, and whenever no
\* updater holds the mutex the pair (remains, limit) is the initial (0, 0)
\* or the pair parsed from one single response, never the remains of one
\* response with the limit of another.
C13_CountersConsistent ==
  /\ Cardinality(Inside) <= 1
  /\ (mu = 0) = (Inside = {})
  /\ \A u \in Inside : mu = u.id
  /\ mu = 0 => Counters \in {<<0, 0>>} \cup Recorded

\* no updater holds the mutex, the updaters of two responses with different
\* headers have both written the counters one after the other, and the
\* counters are the pair of one of them, in neither part that of the other
C13_Witness ==
  /\ mu = 0 /\ Len(done) = 2
  /\ PairOf(done[1])[1] # PairOf(done[2])[1]
  /\ PairOf(done[1])[2] # PairOf(done[2])[2]
  /\ Counters = PairOf(done[2])

====
